---- MODULE Spec2Model ----
(***************************************************************************)
(* Model of general/project/projectinit.go: ProjectInitCommand.Run and the *)
(* helpers it calls (detectTechnologies, createDefaultReposIfNeeded,       *)
(* createProjectBuildConfigs, createBuildConfig, createBuildMessage).      *)
(***************************************************************************)
EXTENDS Integers, Sequences, FiniteSets, TLC

(***************************************************************************)
(* Bounds of the model.                                                    *)
(***************************************************************************)
\* Longest project path (in characters) the path specification enumerates.
MaxPathLen == 5
\* Largest number of manifests (root-level plus nested) a project holds.
MaxManifests == 2
\* Number of failures the environment injects over a behaviour.
MaxFaults == 1
\* Number of times Run is invoked on the project.
MaxRuns == 2

(***************************************************************************)
(* Paths: sequences of one-character strings.  Separator is '/'.           *)
(***************************************************************************)
Separator == "/"

PathChars == {"/", "p", "m", "."}

RECURSIVE SeqsUpTo(_)
SeqsUpTo(n) ==
  IF n = 0 THEN {<<>>}
  ELSE LET shorter == SeqsUpTo(n - 1)
       IN  shorter \cup {Append(s, c) : s \in {t \in shorter : Len(t) = n - 1}, c \in PathChars}

IsPathSeparator(c) == c = Separator

\* The inner loop of filepath.Clean's ".." case: out.w--, then keep dropping
\* while out.w > dotdot and the character at index out.w is no separator.
RECURSIVE Backtrack(_, _, _)
Backtrack(out, w, dotdot) ==
  IF w > dotdot /\ ~IsPathSeparator(out[w + 1])
  THEN Backtrack(out, w - 1, dotdot)
  ELSE SubSeq(out, 1, w)

\* Index one past the end of the path element that starts at r (0-based r).
RECURSIVE ElementEnd(_, _)
ElementEnd(path, r) ==
  IF r < Len(path) /\ ~IsPathSeparator(path[r + 1])
  THEN ElementEnd(path, r + 1)
  ELSE r

\* The main loop of filepath.Clean; r and dotdot are 0-based as in the Go code,
\* out is the output buffer (out.w = Len(out)).
RECURSIVE CleanLoop(_, _, _, _, _)
CleanLoop(path, rooted, r, out, dotdot) ==
  LET n == Len(path)
  IN
  IF r >= n THEN (IF Len(out) = 0 THEN <<".">> ELSE out)
  ELSE IF IsPathSeparator(path[r + 1])
    THEN CleanLoop(path, rooted, r + 1, out, dotdot)
  ELSE IF path[r + 1] = "." /\ (r + 1 = n \/ IsPathSeparator(path[r + 2]))
    THEN CleanLoop(path, rooted, r + 1, out, dotdot)
  ELSE IF path[r + 1] = "." /\ path[r + 2] = "."
          /\ (r + 2 = n \/ IsPathSeparator(path[r + 3]))
    THEN IF Len(out) > dotdot
           THEN CleanLoop(path, rooted, r + 2,
                          Backtrack(out, Len(out) - 1, dotdot), dotdot)
         ELSE IF ~rooted
           THEN LET o1 == IF Len(out) > 0 THEN Append(out, Separator) ELSE out
                    o2 == o1 \o <<".", ".">>
                IN  CleanLoop(path, rooted, r + 2, o2, Len(o2))
         ELSE CleanLoop(path, rooted, r + 2, out, dotdot)
  ELSE LET o1 == IF (rooted /\ Len(out) # 1) \/ (~rooted /\ Len(out) # 0)
                 THEN Append(out, Separator) ELSE out
           e  == ElementEnd(path, r)
       IN  CleanLoop(path, rooted, e, o1 \o SubSeq(path, r + 1, e), dotdot)

\* filepath.Clean on a Unix build (no volume name).
Clean(path) ==
  IF Len(path) = 0 THEN <<".">>
  ELSE LET rooted == IsPathSeparator(path[1])
       IN  IF rooted THEN CleanLoop(path, rooted, 1, <<Separator>>, 1)
           ELSE CleanLoop(path, rooted, 0, <<>>, 0)

\* 0-based index of the last separator at or before i, or -1.
RECURSIVE LastSeparator(_, _)
LastSeparator(path, i) ==
  IF i >= 0 /\ ~IsPathSeparator(path[i + 1])
  THEN LastSeparator(path, i - 1)
  ELSE i

\* filepath.Dir: everything up to the last separator, cleaned.
Dir(path) ==
  LET i == LastSeparator(path, Len(path) - 1)
  IN  Clean(SubSeq(path, 1, i + 1))

RECURSIVE StripTrailingSeparators(_)
StripTrailingSeparators(path) ==
  IF Len(path) > 0 /\ IsPathSeparator(path[Len(path)])
  THEN StripTrailingSeparators(SubSeq(path, 1, Len(path) - 1))
  ELSE path

\* filepath.Base: the last element of the path.
Base(path) ==
  IF Len(path) = 0 THEN <<".">>
  ELSE LET stripped == StripTrailingSeparators(path)
           i == LastSeparator(stripped, Len(stripped) - 1)
           last == IF i >= 0 THEN SubSeq(stripped, i + 2, Len(stripped)) ELSE stripped
       IN  IF Len(last) = 0 THEN <<Separator>> ELSE last


(***************************************************************************)
(* Technologies, repository names and the records written to disk.         *)
(***************************************************************************)
Maven == "Maven"
Gradle == "Gradle"
Npm == "npm"
Go == "go"
Pip == "pip"
Pipenv == "pipenv"

Technologies == {Maven, Gradle, Npm, Go, Pip, Pipenv}

\* strings.ToLower on a technology's name.
ToLower(tech) == IF tech = Maven THEN "maven" ELSE IF tech = Gradle THEN "gradle" ELSE tech

\* The package type of the default repositories of a technology.
RepoKey(tech) == IF tech \in {Pip, Pipenv} THEN "pypi" ELSE ToLower(tech)

\* Name of the default repository of a kind ("local", "remote", "virtual").
DefaultRepoName(kind, tech) ==
  LET key == RepoKey(tech)
  IN  IF kind = "local"
        THEN CASE key = "maven" -> "default-maven-local"
               [] key = "gradle" -> "default-gradle-local"
               [] key = "npm" -> "default-npm-local"
               [] key = "go" -> "default-go-local"
               [] key = "pypi" -> "default-pypi-local"
      ELSE IF kind = "remote"
        THEN CASE key = "maven" -> "default-maven-remote"
               [] key = "gradle" -> "default-gradle-remote"
               [] key = "npm" -> "default-npm-remote"
               [] key = "go" -> "default-go-remote"
               [] key = "pypi" -> "default-pypi-remote"
      ELSE CASE key = "maven" -> "default-maven-virtual"
             [] key = "gradle" -> "default-gradle-virtual"
             [] key = "npm" -> "default-npm-virtual"
             [] key = "go" -> "default-go-virtual"
             [] key = "pypi" -> "default-pypi-virtual"

MavenVirtualDefaultName == DefaultRepoName("virtual", Maven)
GradleVirtualDefaultName == DefaultRepoName("virtual", Gradle)
NpmVirtualDefaultName == DefaultRepoName("virtual", Npm)
GoVirtualDefaultName == DefaultRepoName("virtual", Go)
PypiVirtualDefaultName == DefaultRepoName("virtual", Pip)

BuildConfVersion == 1

buildFileName == <<"build", ".yaml">>

\* techName + ".yaml"
TechFileName(tech) == <<ToLower(tech), ".yaml">>

\* artifactoryUtils.Repository{ServerId: serverId}: the other fields are zero.
Repository(id) == [serverId |-> id, repo |-> "", releaseRepo |-> "", snapshotRepo |-> ""]

\* yaml.Marshal of a struct of strings that are all omitempty: empty ones vanish.
OmitEmpty(r) == [f \in {g \in DOMAIN r : r[g] # ""} |-> r[f]]

\* createProjectBuildConfigs with Pipenv's fallthrough missing: no repo is set.
ConfigFileNoFallthrough(tech, id) ==
  LET r0 == Repository(id)
      r  == IF tech = Maven
              THEN [r0 EXCEPT !.releaseRepo = MavenVirtualDefaultName,
                              !.snapshotRepo = MavenVirtualDefaultName]
            ELSE IF tech = Gradle THEN [r0 EXCEPT !.repo = GradleVirtualDefaultName]
            ELSE IF tech = Npm THEN [r0 EXCEPT !.repo = NpmVirtualDefaultName]
            ELSE IF tech = Go THEN [r0 EXCEPT !.repo = GoVirtualDefaultName]
            ELSE IF tech = Pip THEN [r0 EXCEPT !.repo = PypiVirtualDefaultName]
            ELSE r0
  IN  [version |-> BuildConfVersion, type |-> ToLower(tech), resolver |-> r, deployer |-> r]

\* The ConfigFile record createProjectBuildConfigs builds for a technology.
ConfigFile(tech, id) ==
  LET resolver0 == Repository(id)
      deployer0 == Repository(id)
      resolver ==
        IF tech = Maven
          THEN [resolver0 EXCEPT !.releaseRepo = MavenVirtualDefaultName,
                                 !.snapshotRepo = MavenVirtualDefaultName]
        ELSE IF tech = Gradle THEN [resolver0 EXCEPT !.repo = GradleVirtualDefaultName]
        ELSE IF tech = Npm THEN [resolver0 EXCEPT !.repo = NpmVirtualDefaultName]
        ELSE IF tech = Go THEN [resolver0 EXCEPT !.repo = GoVirtualDefaultName]
        ELSE IF tech \in {Pipenv, Pip} THEN [resolver0 EXCEPT !.repo = PypiVirtualDefaultName]
        ELSE resolver0
      deployer ==
        IF tech = Maven
          THEN [deployer0 EXCEPT !.releaseRepo = MavenVirtualDefaultName,
                                 !.snapshotRepo = MavenVirtualDefaultName]
        ELSE IF tech = Gradle THEN [deployer0 EXCEPT !.repo = GradleVirtualDefaultName]
        ELSE IF tech = Npm THEN [deployer0 EXCEPT !.repo = NpmVirtualDefaultName]
        ELSE IF tech = Go THEN [deployer0 EXCEPT !.repo = GoVirtualDefaultName]
        ELSE IF tech \in {Pipenv, Pip} THEN [deployer0 EXCEPT !.repo = PypiVirtualDefaultName]
        ELSE deployer0
  IN  [version |-> BuildConfVersion, type |-> ToLower(tech),
       resolver |-> resolver, deployer |-> deployer]

\* yaml.Marshal(&configFile): the bytes of <technology>.yaml, one document.
MarshalConfigFile(c) ==
  <<[version |-> c.version, type |-> c.type,
     resolver |-> OmitEmpty(c.resolver), deployer |-> OmitEmpty(c.deployer)]>>

\* The name createBuildConfig derives from the path, with the Dir call missing.
projectDirNameNoDir(path) == Base(path)

\* projectDirName := filepath.Base(filepath.Dir(pic.projectPath))
projectDirName(path) == Base(Dir(path))

\* yaml.Marshal(&buildConfigFile): the bytes of build.yaml, one document.
MarshalBuildConfigFile(path) ==
  LET buildName == projectDirName(path)
  IN  IF Len(buildName) = 0
      THEN <<[version |-> 1, type |-> "build"]>>
      ELSE <<[version |-> 1, type |-> "build", name |-> buildName]>>

\* ioutil.WriteFile opening the file for append instead of truncating it.
WriteFileAppend(files, name, bytes) ==
  [n \in DOMAIN files \cup {name} |->
     IF n = name THEN (IF n \in DOMAIN files THEN files[n] \o bytes ELSE bytes)
     ELSE files[n]]

\* ioutil.WriteFile refusing to replace a file that exists.
WriteFileKeep(files, name, bytes) ==
  [n \in DOMAIN files \cup {name} |->
     IF n \in DOMAIN files THEN files[n] ELSE bytes]

\* ioutil.WriteFile(name, bytes, 0644): create or truncate, then write.
WriteFile(files, name, bytes) ==
  [n \in DOMAIN files \cup {name} |-> IF n = name THEN bytes ELSE files[n]]

\* What a failed create-directory-and-write can leave behind: nothing changed
\* (the directory or the open failed), or the file truncated and not rewritten.
FailedWrite(files, name) == {files, WriteFile(files, name, <<>>)}

\* The command lines createBuildMessage appends for one technology.
BuildCommands(tech) ==
  IF tech = Maven THEN <<"jf mvn install deploy">>
  ELSE IF tech = Gradle THEN <<"jf gradle artifactoryP">>
  ELSE IF tech = Npm THEN <<"jf npm install", "jf npm publish">>
  ELSE IF tech = Go THEN <<"jf go build", "jf go-publish v1.0.0">>
  ELSE IF tech = Pip
    THEN <<"jf pip install", "jf rt u path/to/package/file default-pypi-local">>
  ELSE IF tech = Pipenv
    THEN <<"jf pipenv install", "jf rt u path/to/package/file default-pypi-local">>
  ELSE <<>>

\* The orders in which a range over a map may visit its keys.
RECURSIVE Orders(_)
Orders(S) ==
  IF S = {} THEN {<<>>}
  ELSE UNION {{<<t>> \o o : o \in Orders(S \ {t})} : t \in S}

RECURSIVE Concat(_, _)
Concat(order, i) ==
  IF i > Len(order) THEN <<>> ELSE BuildCommands(order[i]) \o Concat(order, i + 1)

\* createBuildMessage that adds the titles even when no command was collected.
createBuildMessageAlways(order) ==
  LET message == Concat(order, 1)
  IN  <<"Build the code & deploy the packages by running">> \o message
      \o <<"Publish the build-info to Artifactory", "jf rt bp">>

\* createBuildMessage, for one visiting order of the map.
createBuildMessage(order) ==
  LET message == Concat(order, 1)
  IN  IF message # <<>>
      THEN <<"Build the code & deploy the packages by running">> \o message
           \o <<"Publish the build-info to Artifactory", "jf rt bp">>
      ELSE message

\* The recursive scan made whatever the first scan returned.
NeedsRecursiveScanAlways(first) == TRUE

\* detectTechnologies: len(technologiesMap) == 0 after the root scan.
NeedsRecursiveScan(first) == Cardinality(first) = 0

\* errorutils.CheckError: hands the error back as it got it.
CheckError(e) == e

(***************************************************************************)
(* State.                                                                  *)
(***************************************************************************)
VARIABLES
  projectPath,     \* the path given to SetProjectPath
  argServerId,     \* the id given to SetServerId ("" when none is given)
  root,            \* technologies with a manifest in the project's root
  nested,          \* technologies with a manifest in nested directories only
  faults,          \* steps the environment will fail, each once
  pc,              \* where Run stands
  serverId,        \* pic.serverId
  technologiesMap, \* the detected technologies
  todo,            \* keys the range loop has not visited yet
  cur,             \* techName of the current iteration
  fs,              \* <project>/.jfrog/projects: file name -> bytes
  repos,           \* repositories existing on the server
  err,             \* what Run returned
  message,         \* what Run printed
  obs,             \* what the current run did so far
  runs,            \* number of runs started
  hist             \* how the previous run ended

vars == <<projectPath, argServerId, root, nested, faults, pc, serverId,
          technologiesMap, todo, cur, fs, repos, err, message, obs, runs, hist>>

project == <<projectPath, argServerId, root, nested>>

DefaultServerId == "default-server"
ServerIds == {"", "local-server"}
RunPaths == {<<"/", "p", "/", "m">>}

Nil == <<"nil", "">>
NoStep == <<"none", "">>
NoTech == ""
EmptyFs == [n \in {} |-> <<>>]

LookupStep == <<"lookup", "">>
DetectStep(recursive) == <<"detect", IF recursive THEN "recursive" ELSE "root">>
RepoStep(kind, tech) == <<kind, tech>>
ConfigStep(tech) == <<"config", tech>>
BuildStep == <<"build", "">>
SummaryStep == <<"summary", "">>

RepoKinds == {"local", "remote", "virtual"}

\* The error a collaborator reports when the step fails.
ErrorOf(step) == <<"error">> \o step

\* What the technology detector finds in the project.
DetectTechnologies(recursive) == IF recursive THEN root \cup nested ELSE root

\* The result of detectTechnologies when no scan fails.
Detected(rt, ns) == IF rt # {} THEN rt ELSE rt \cup ns

\* The id Run works with when the lookup does not fail.
EffectiveServerId(id) == IF id = "" THEN DefaultServerId ELSE id

\* The steps of a run of the project in which nothing fails.
RunSteps(rt, ns, id) ==
  (IF id = "" THEN {LookupStep} ELSE {})
  \cup {DetectStep(FALSE)}
  \cup (IF rt = {} THEN {DetectStep(TRUE)} ELSE {})
  \cup {RepoStep(k, t) : k \in RepoKinds, t \in Detected(rt, ns)}
  \cup {ConfigStep(t) : t \in Detected(rt, ns)}
  \cup {BuildStep, SummaryStep}

RECURSIVE SubsetsUpTo(_, _)
SubsetsUpTo(S, k) ==
  IF k = 0 THEN {{}}
  ELSE LET smaller == SubsetsUpTo(S, k - 1)
       IN  smaller \cup {F \cup {x} : F \in smaller, x \in S}

Fails(step) == step \in faults

FreshObs(pending) ==
  [detectCalls |-> <<>>, issued |-> {}, ensured |-> {}, nCalls |-> 0,
   written |-> {}, nWrites |-> 0, failedAt |-> NoStep, faults0 |-> pending]

\* NewProjectInitCommand().SetProjectPath(path).SetServerId(id), Run called.
Called(pending) ==
  /\ pc = "start"
  /\ serverId = argServerId
  /\ technologiesMap = {}
  /\ todo = {}
  /\ cur = NoTech
  /\ err = Nil
  /\ message = <<>>
  /\ obs = FreshObs(pending)

InitProject(paths, manifests, injected) ==
  /\ projectPath \in paths
  /\ argServerId \in ServerIds
  /\ root \in SubsetsUpTo(Technologies, manifests)
  /\ nested \in SubsetsUpTo(Technologies \ root, manifests - Cardinality(root))
  /\ faults \in SubsetsUpTo(RunSteps(root, nested, argServerId), injected)
  /\ fs = EmptyFs
  /\ repos = {}
  /\ runs = 1
  /\ hist = [prev |-> "none", partial |-> FALSE, okFs |-> EmptyFs]
  /\ Called(faults)

Init == InitProject(RunPaths, MaxManifests, MaxFaults)

\* return err, for the error of a failed step.
Return(step, e) ==
  /\ pc' = "done"
  /\ err' = e
  /\ faults' = faults \ {step}

(***************************************************************************)
(* Run, one action per step.                                               *)
(***************************************************************************)
\* Run, lines 42-48: the default server is looked up when no id was given.
ResolveServerId ==
  /\ pc = "start"
  /\ IF serverId = ""
     THEN IF Fails(LookupStep)
          THEN /\ Return(LookupStep, ErrorOf(LookupStep))
               /\ obs' = [obs EXCEPT !.failedAt = LookupStep]
               /\ UNCHANGED serverId
          ELSE /\ serverId' = DefaultServerId
               /\ pc' = "detect"
               /\ UNCHANGED <<err, faults, obs>>
     ELSE /\ pc' = "detect"
          /\ UNCHANGED <<serverId, err, faults, obs>>
  /\ UNCHANGED <<project, technologiesMap, todo, cur, fs, repos, message, runs, hist>>

\* detectTechnologies, lines 147-150: the scan of the root directory.
DetectRoot ==
  /\ pc = "detect"
  /\ LET step == DetectStep(FALSE)
         seen == [obs EXCEPT !.detectCalls = Append(@, FALSE)]
     IN  IF Fails(step)
         THEN /\ Return(step, ErrorOf(step))
              /\ obs' = [seen EXCEPT !.failedAt = step]
              /\ UNCHANGED <<technologiesMap, todo>>
         ELSE /\ technologiesMap' = DetectTechnologies(FALSE)
              /\ IF NeedsRecursiveScan(technologiesMap')
                 THEN pc' = "detectRecursive" /\ todo' = todo
                 ELSE pc' = "range" /\ todo' = technologiesMap'
              /\ obs' = seen
              /\ UNCHANGED <<err, faults>>
  /\ UNCHANGED <<project, serverId, cur, fs, repos, message, runs, hist>>

\* detectTechnologies, lines 152-157: the recursive scan.
DetectRecursive ==
  /\ pc = "detectRecursive"
  /\ LET step == DetectStep(TRUE)
         seen == [obs EXCEPT !.detectCalls = Append(@, TRUE)]
     IN  IF Fails(step)
         THEN /\ Return(step, ErrorOf(step))
              /\ obs' = [seen EXCEPT !.failedAt = step]
              /\ UNCHANGED <<technologiesMap, todo>>
         ELSE /\ technologiesMap' = DetectTechnologies(TRUE)
              /\ todo' = technologiesMap'
              /\ pc' = "range"
              /\ obs' = seen
              /\ UNCHANGED <<err, faults>>
  /\ UNCHANGED <<project, serverId, cur, fs, repos, message, runs, hist>>

\* Run, line 54: the range picks a key it has not visited, in any order.
RangeNext ==
  /\ pc = "range"
  /\ \E techName \in todo :
       /\ cur' = techName
       /\ todo' = todo \ {techName}
  /\ pc' = "local"
  /\ UNCHANGED <<project, faults, serverId, technologiesMap, fs, repos, err,
                 message, obs, runs, hist>>

\* The loop's exit skipping createBuildConfig when the map is empty.
RangeDoneSkipEmpty ==
  /\ pc = "range"
  /\ todo = {}
  /\ cur' = NoTech
  /\ pc' = IF technologiesMap = {} THEN "summary" ELSE "build"
  /\ UNCHANGED <<project, faults, serverId, technologiesMap, todo, fs, repos, err,
                 message, obs, runs, hist>>

\* Run, lines 64-66: every key was visited.
RangeDone ==
  /\ pc = "range"
  /\ todo = {}
  /\ cur' = NoTech
  /\ pc' = "build"
  /\ UNCHANGED <<project, faults, serverId, technologiesMap, todo, fs, repos, err,
                 message, obs, runs, hist>>

\* The server's repositories after a Create...Repo call that succeeds: the
\* default repository of that kind exists, as it may have before.
EnsureDefaultRepo(existing, kind, tech) == existing \cup {DefaultRepoName(kind, tech)}

\* One Create...Repo call of createDefaultReposIfNeeded, and the return of its
\* error; a call that fails may or may not have made the repository.
CreateDefaultRepo(kind, next) ==
  /\ pc = kind
  /\ LET step == RepoStep(kind, cur)
         seen == [obs EXCEPT !.issued = @ \cup {step}, !.nCalls = @ + 1]
     IN  IF Fails(step)
         THEN /\ Return(step, ErrorOf(step))
              /\ repos' \in {repos, EnsureDefaultRepo(repos, kind, cur)}
              /\ obs' = [seen EXCEPT !.failedAt = step]
         ELSE /\ repos' = EnsureDefaultRepo(repos, kind, cur)
              /\ pc' = next
              /\ obs' = [seen EXCEPT !.ensured = @ \cup {step}]
              /\ UNCHANGED <<err, faults>>
  /\ UNCHANGED <<project, serverId, technologiesMap, todo, cur, fs, message, runs, hist>>

\* CreateDefaultLocalRepo with its error dropped: the remote call follows anyway.
CreateDefaultLocalRepoIgnoreError ==
  /\ pc = "local"
  /\ LET step == RepoStep("local", cur)
         seen == [obs EXCEPT !.issued = @ \cup {step}, !.nCalls = @ + 1]
     IN  IF Fails(step)
         THEN /\ faults' = faults \ {step}
              /\ repos' = repos
              /\ obs' = [seen EXCEPT !.failedAt = step]
         ELSE /\ repos' = EnsureDefaultRepo(repos, "local", cur)
              /\ obs' = [seen EXCEPT !.ensured = @ \cup {step}]
              /\ faults' = faults
  /\ pc' = "remote"
  /\ UNCHANGED <<project, serverId, technologiesMap, todo, cur, fs, message, runs,
                 hist, err>>

\* createDefaultReposIfNeeded, lines 183-186.
CreateDefaultLocalRepo == CreateDefaultRepo("local", "remote")

\* createDefaultReposIfNeeded going on to the config file after the remote call.
CreateDefaultRemoteRepoThenConfig == CreateDefaultRepo("remote", "config")

\* createDefaultReposIfNeeded, lines 187-190.
CreateDefaultRemoteRepo == CreateDefaultRepo("remote", "virtual")

\* createDefaultReposIfNeeded, line 192, and Run, lines 57-59.
CreateDefaultVirtualRepo == CreateDefaultRepo("virtual", "config")

\* createProjectBuildConfigs followed by a break out of the loop.
createProjectBuildConfigsBreak ==
  /\ pc = "config"
  /\ LET step == ConfigStep(cur)
         name == TechFileName(cur)
         resBytes == MarshalConfigFile(ConfigFile(cur, serverId))
     IN  IF Fails(step)
         THEN /\ Return(step, CheckError(ErrorOf(step)))
              /\ fs' \in FailedWrite(fs, name)
              /\ obs' = [obs EXCEPT !.failedAt = step]
         ELSE /\ fs' = WriteFile(fs, name, resBytes)
              /\ pc' = "build"
              /\ obs' = [obs EXCEPT !.written = @ \cup {name}, !.nWrites = @ + 1]
              /\ UNCHANGED <<err, faults>>
  /\ UNCHANGED <<project, serverId, technologiesMap, todo, cur, repos, message, runs, hist>>

\* createProjectBuildConfigs, lines 195-235, and Run, lines 60-63.
createProjectBuildConfigs ==
  /\ pc = "config"
  /\ LET step == ConfigStep(cur)
         name == TechFileName(cur)
         resBytes == MarshalConfigFile(ConfigFile(cur, serverId))
     IN  IF Fails(step)
         THEN /\ Return(step, CheckError(ErrorOf(step)))
              /\ fs' \in FailedWrite(fs, name)
              /\ obs' = [obs EXCEPT !.failedAt = step]
         ELSE /\ fs' = WriteFile(fs, name, resBytes)
              /\ pc' = "range"
              /\ obs' = [obs EXCEPT !.written = @ \cup {name}, !.nWrites = @ + 1]
              /\ UNCHANGED <<err, faults>>
  /\ UNCHANGED <<project, serverId, technologiesMap, todo, cur, repos, message, runs, hist>>

\* createBuildConfig, lines 167-180, and Run, lines 66-68.
createBuildConfig ==
  /\ pc = "build"
  /\ LET resBytes == MarshalBuildConfigFile(projectPath)
     IN  IF Fails(BuildStep)
         THEN /\ Return(BuildStep, CheckError(ErrorOf(BuildStep)))
              /\ fs' \in FailedWrite(fs, buildFileName)
              /\ obs' = [obs EXCEPT !.failedAt = BuildStep]
         ELSE /\ fs' = WriteFile(fs, buildFileName, resBytes)
              /\ pc' = "summary"
              /\ obs' = [obs EXCEPT !.written = @ \cup {buildFileName}, !.nWrites = @ + 1]
              /\ UNCHANGED <<err, faults>>
  /\ UNCHANGED <<project, serverId, technologiesMap, todo, cur, repos, message, runs, hist>>

\* createSummarizeMessage, lines 77-99, for one visiting order of the map.
createSummarizeMessage(order) ==
  <<"This project is initialized!",
    "The project config is stored inside the .jfrog directory.",
    "jf audit", "jf scan path/to/dir/or/package">>
  \o createBuildMessage(order)
  \o <<"Read more using this link:">>

\* Run, lines 70-74: the summary is printed and PrintTable's error returned.
PrintSummary ==
  /\ pc = "summary"
  /\ \E order \in Orders(technologiesMap) :
       IF Fails(SummaryStep)
       THEN /\ Return(SummaryStep, ErrorOf(SummaryStep))
            /\ message' = <<>>
            /\ obs' = [obs EXCEPT !.failedAt = SummaryStep]
       ELSE /\ message' = createSummarizeMessage(order)
            /\ pc' = "done"
            /\ err' = Nil
            /\ UNCHANGED <<faults, obs>>
  /\ UNCHANGED <<project, serverId, technologiesMap, todo, cur, fs, repos, runs, hist>>

\* The command is built and run again on the same project with the same inputs.
Rerun ==
  /\ pc = "done"
  /\ runs < MaxRuns
  /\ runs' = runs + 1
  /\ hist' = [prev |-> IF err = Nil THEN "ok" ELSE "failed",
              partial |-> err # Nil /\ (obs.nWrites > 0 \/ obs.ensured # {}),
              okFs |-> IF err = Nil THEN fs ELSE EmptyFs]
  /\ pc' = "start"
  /\ serverId' = argServerId
  /\ technologiesMap' = {}
  /\ todo' = {}
  /\ cur' = NoTech
  /\ err' = Nil
  /\ message' = <<>>
  /\ obs' = FreshObs(faults)
  /\ UNCHANGED <<project, faults, fs, repos>>

Next ==
  \/ ResolveServerId
  \/ DetectRoot
  \/ DetectRecursive
  \/ RangeNext
  \/ RangeDone
  \/ CreateDefaultLocalRepo
  \/ CreateDefaultRemoteRepo
  \/ CreateDefaultVirtualRepo
  \/ createProjectBuildConfigs
  \/ createBuildConfig
  \/ PrintSummary
  \/ Rerun

Spec == Init /\ [][Next]_vars

(***************************************************************************)
(* One run on a project without manifests, for every project path up to    *)
(* MaxPathLen characters.                                                  *)
(***************************************************************************)
InitPath == InitProject(SeqsUpTo(MaxPathLen), 0, 0)

NextPath ==
  \/ ResolveServerId
  \/ DetectRoot
  \/ DetectRecursive
  \/ RangeDone
  \/ createBuildConfig
  \/ PrintSummary

PathSpec == InitPath /\ [][NextPath]_vars

(***************************************************************************)
(* Properties.                                                             *)
(***************************************************************************)
Finished == pc = "done"
Succeeded == pc = "done" /\ err = Nil
Failed == pc = "done" /\ err # Nil

\* The technologies a run without failing scan detects, and the id it uses.
Found == Detected(root, nested)
Id == EffectiveServerId(argServerId)

\* The detection has returned without an error.
DetectionReturned ==
  \/ pc \in {"range", "local", "remote", "virtual", "config", "build", "summary"}
  \/ pc = "done" /\ obs.failedAt \notin {LookupStep, DetectStep(FALSE), DetectStep(TRUE)}

\* C2: the first detection call is never recursive; a second, recursive call is
\* made exactly when the first one succeeded and returned nothing; so with a
\* manifest in the root the result is the root scan's set and no recursive scan
\* is made, and with manifests in nested directories only the result is the
\* recursive scan's set.
C2_TwoPassDetection ==
  LET calls == obs.detectCalls
      firstReturnedEmpty ==
        /\ Len(calls) >= 1
        /\ ~(pc = "done" /\ obs.failedAt = DetectStep(FALSE))
        /\ DetectTechnologies(FALSE) = {}
  IN  /\ Len(calls) <= 2
      /\ Len(calls) >= 1 => calls[1] = FALSE
      /\ Len(calls) = 2 => calls[2] = TRUE /\ firstReturnedEmpty
      /\ (firstReturnedEmpty /\ pc # "detectRecursive") => Len(calls) = 2
      /\ (pc \notin {"start", "detect"} /\ obs.failedAt # LookupStep) => Len(calls) >= 1
      /\ (DetectionReturned /\ root # {}) =>
           technologiesMap = root /\ calls = <<FALSE>>
      /\ (DetectionReturned /\ root = {}) =>
           technologiesMap = nested /\ calls = <<FALSE, TRUE>>

\* C2's cases: a root manifest next to nested ones of other technologies, and
\* nested manifests only, each with the detection returned.
C2_Witness ==
  /\ DetectionReturned
  /\ \/ root # {} /\ nested # {} /\ technologiesMap = root
     \/ root = {} /\ nested # {} /\ technologiesMap = nested

(***************************************************************************)
(* C3: reference reading of a path by its elements.                        *)
(***************************************************************************)
\* The elements of a path: its maximal runs of characters other than '/'.
RECURSIVE Elements(_)
Elements(path) ==
  IF path = <<>> THEN <<>>
  ELSE IF path[1] = "/" THEN Elements(Tail(path))
  ELSE LET stops == {i \in 1..Len(path) : path[i] = "/"}
           j == IF stops = {} THEN Len(path) + 1
                ELSE CHOOSE i \in stops : \A k \in stops : i <= k
       IN  <<SubSeq(path, 1, j - 1)>> \o Elements(SubSeq(path, j, Len(path)))

\* The elements left once "." is dropped and ".." has removed its predecessor.
RECURSIVE Resolve(_, _, _)
Resolve(elems, rooted, stack) ==
  IF elems = <<>> THEN stack
  ELSE LET e == elems[1]
           rest == Tail(elems)
       IN  IF e = <<".">> THEN Resolve(rest, rooted, stack)
           ELSE IF e = <<".", ".">>
             THEN IF stack # <<>> /\ stack[Len(stack)] # <<".", ".">>
                    THEN Resolve(rest, rooted, SubSeq(stack, 1, Len(stack) - 1))
                  ELSE IF rooted THEN Resolve(rest, rooted, stack)
                  ELSE Resolve(rest, rooted, Append(stack, e))
           ELSE Resolve(rest, rooted, Append(stack, e))

EndsWithSeparator(path) == path # <<>> /\ path[Len(path)] = "/"
Rooted(path) == path # <<>> /\ path[1] = "/"

\* The path made of ordinary names only: no "." and no ".." element.
Plain(path) == \A i \in 1..Len(Elements(path)) :
                 Elements(path)[i] \notin {<<".">>, <<".", ".">>}

\* The last name of the directory a path resolves to ("/" for the root, "."
\* for the working directory).
LastName(path) ==
  LET stack == Resolve(Elements(path), Rooted(path), <<>>)
  IN  IF stack # <<>> THEN stack[Len(stack)]
      ELSE IF Rooted(path) THEN <<"/">> ELSE <<".">>

\* The path cut after its last separator (empty when it has none).
UpToLastSeparator(path) ==
  LET seps == {i \in 1..Len(path) : path[i] = "/"}
  IN  IF seps = {} THEN <<>>
      ELSE SubSeq(path, 1, CHOOSE i \in seps : \A k \in seps : k <= i)

\* build.yaml was written by this run.
BuildWritten == buildFileName \in obs.written

\* The name field of the build.yaml on disk.
WrittenName == fs[buildFileName][1].name

\* C3 as stated: the written name is the basename of the parent directory of
\* the project path, whether or not the path ends with a separator: for a path
\* of ordinary names with a parent, it is the name before the last one.
C3_NameIsParentBasename ==
  LET elems == Elements(projectPath)
  IN  (BuildWritten /\ Plain(projectPath) /\ Len(elems) >= 2)
        => WrittenName = elems[Len(elems) - 1]

\* C3 amended: the written name is the last name of the project path cut after
\* its last separator, so for a path of ordinary names it is the basename of
\* the parent directory when the path does not end with a separator, and the
\* basename of the path itself when it does.
C3_NameIsBaseOfDir ==
  LET elems == Elements(projectPath)
  IN  BuildWritten =>
        /\ WrittenName = LastName(UpToLastSeparator(projectPath))
        /\ (Plain(projectPath) /\ Len(elems) >= 2 /\ ~EndsWithSeparator(projectPath))
             => WrittenName = elems[Len(elems) - 1]
        /\ (Plain(projectPath) /\ Len(elems) >= 1 /\ EndsWithSeparator(projectPath))
             => WrittenName = elems[Len(elems)]

\* C3's case: build.yaml written for /p/m/, named m.
C3_Witness ==
  /\ BuildWritten
  /\ projectPath = <<"/", "p", "/", "m", "/">>
  /\ WrittenName = <<"m">>

(***************************************************************************)
(* What a run without failure leaves on a fresh project.                   *)
(***************************************************************************)
ExpectedFiles ==
  [n \in {TechFileName(t) : t \in Found} \cup {buildFileName} |->
     IF n = buildFileName
     THEN MarshalBuildConfigFile(projectPath)
     ELSE LET t == CHOOSE u \in Found : TechFileName(u) = n
          IN  MarshalConfigFile(ConfigFile(t, Id))]

ExpectedRepos == {DefaultRepoName(k, t) : k \in RepoKinds, t \in Found}

ExpectedCalls == {RepoStep(k, t) : k \in RepoKinds, t \in Found}

\* The file a step writes, if it writes one.
Target ==
  IF pc = "config" THEN {TechFileName(cur)}
  ELSE IF pc = "build" THEN {buildFileName}
  ELSE {}

\* C1: a failing step ends the run at once with that step's own error: no step
\* of the run follows it, and no step removes a repository or touches a file
\* other than the one it writes.
C1_FailureAborts ==
  /\ [](obs.failedAt # NoStep => pc = "done" /\ err = ErrorOf(obs.failedAt))
  /\ [](Failed => obs.failedAt # NoStep)
  /\ [][obs.failedAt # NoStep => runs' = runs + 1 /\ fs' = fs /\ repos' = repos]_vars
  /\ [][/\ repos \subseteq repos'
        /\ \A n \in DOMAIN fs :
             n \in DOMAIN fs' /\ (n \notin Target => fs'[n] = fs[n])]_vars

\* C1's case: a run that failed in a provisioning call after it had written a
\* file, which is still there.
C1_Witness ==
  /\ Failed
  /\ obs.failedAt[1] \in RepoKinds
  /\ obs.nWrites > 0
  /\ \A n \in obs.written : n \in DOMAIN fs /\ fs[n] # <<>>

\* C4: a technology's config file holds, for Maven, releaseRepo and
\* snapshotRepo set to Maven's virtual default name and no repo, and for any
\* other technology a single non-empty repo, the technology's virtual default
\* name; resolver and deployer are the same, with the run's server id.
C4_ConfigShape ==
  \A t \in Technologies :
    (TechFileName(t) \in DOMAIN fs /\ fs[TechFileName(t)] # <<>>) =>
      LET doc == fs[TechFileName(t)][1]
      IN  /\ Len(fs[TechFileName(t)]) = 1
          /\ doc.resolver = doc.deployer
          /\ doc.resolver.serverId = Id
          /\ IF t = Maven
             THEN /\ DOMAIN doc.resolver = {"serverId", "releaseRepo", "snapshotRepo"}
                  /\ doc.resolver.releaseRepo = MavenVirtualDefaultName
                  /\ doc.resolver.snapshotRepo = MavenVirtualDefaultName
                  /\ MavenVirtualDefaultName # ""
             ELSE /\ DOMAIN doc.resolver = {"serverId", "repo"}
                  /\ doc.resolver.repo # ""
                  /\ doc.resolver.repo = DefaultRepoName("virtual", t)

\* C4's cases: Maven's config file and Pipenv's, both written.
C4_Witness ==
  /\ {TechFileName(Maven), TechFileName(Pipenv)} \subseteq obs.written
  /\ fs[TechFileName(Maven)] # <<>>
  /\ fs[TechFileName(Pipenv)] # <<>>

\* C5: a run that succeeds right after a run that succeeded leaves the files
\* the first one left, with the same contents.
C5_SecondRunSameFiles ==
  (Succeeded /\ hist.prev = "ok") => fs = hist.okFs

\* C5's case: two successful runs in a row on a project of two technologies.
C5_Witness ==
  /\ Succeeded
  /\ hist.prev = "ok"
  /\ Cardinality(technologiesMap) >= 2
  /\ DOMAIN fs = {TechFileName(t) : t \in technologiesMap} \cup {buildFileName}

BuildSectionTitle == "Build the code & deploy the packages by running"

\* C6: with no manifest at any depth a run issues no provisioning call and
\* writes no technology's file; it writes build.yaml only, and its summary has
\* no build-and-deploy section.
C6_NothingDetected ==
  (root = {} /\ nested = {}) =>
    /\ obs.nCalls = 0 /\ obs.issued = {}
    /\ obs.written \subseteq {buildFileName}
    /\ DOMAIN fs \subseteq {buildFileName}
    /\ repos = {}
    /\ pc \in {"summary"} => obs.written = {buildFileName}
    /\ Succeeded =>
         /\ obs.written = {buildFileName}
         /\ message # <<>>
         /\ \A i \in 1..Len(message) : message[i] \notin {BuildSectionTitle, "jf rt bp"}

\* C6's case: a finished run on a project without manifests, after both scans.
C6_Witness ==
  /\ Succeeded
  /\ root = {} /\ nested = {}
  /\ obs.detectCalls = <<FALSE, TRUE>>
  /\ obs.written = {buildFileName}

\* C7: a run without failure that follows a failed run ends with the files and
\* repositories of a single successful run on a fresh project.
C7_RerunRepairs ==
  (Succeeded /\ hist.prev = "failed") =>
    /\ fs = ExpectedFiles
    /\ repos = ExpectedRepos

\* C7's case: the failed run had created repositories or written files.
C7_Witness ==
  /\ Succeeded
  /\ hist.prev = "failed"
  /\ hist.partial

N == Cardinality(technologiesMap)

\* C8 as stated: every run writes between 1 and N+1 files and issues at most
\* 3*N provisioning calls; a run without failure writes N+1 files and issues
\* 3*N calls.
C8_OneToNPlusOne ==
  /\ Finished => obs.nWrites >= 1 /\ obs.nWrites <= N + 1 /\ obs.nCalls <= 3 * N
  /\ Succeeded => obs.nWrites = N + 1 /\ obs.nCalls = 3 * N

\* C8 amended: every run writes between 0 and N+1 files, each a different one,
\* and issues at most 3*N provisioning calls; a run without failure writes
\* exactly N+1 files, one per detected technology and build.yaml, and issues
\* exactly 3*N calls.
C8_ZeroToNPlusOne ==
  /\ obs.nWrites >= 0 /\ obs.nWrites <= N + 1 /\ obs.nCalls <= 3 * N
  /\ Cardinality(obs.written) = obs.nWrites
  /\ Cardinality(obs.issued) = obs.nCalls
  /\ Succeeded =>
       /\ obs.nWrites = N + 1
       /\ obs.nCalls = 3 * N
       /\ obs.written = {TechFileName(t) : t \in technologiesMap} \cup {buildFileName}

\* C8's case: a run that detected technologies, issued calls and failed without
\* writing a file.
C8_Witness ==
  /\ Failed
  /\ N >= 1
  /\ obs.nCalls >= 1
  /\ obs.nWrites = 0

\* C9: a technology's remote call is issued only after its local call
\* succeeded, its virtual call only after its remote call succeeded, its config
\* file is written only after all three succeeded, and build.yaml is written
\* only after every detected technology's config file was.
C9_Ordering ==
  /\ \A t \in Technologies :
       /\ RepoStep("remote", t) \in obs.issued => RepoStep("local", t) \in obs.ensured
       /\ RepoStep("virtual", t) \in obs.issued => RepoStep("remote", t) \in obs.ensured
       /\ (TechFileName(t) \in obs.written \/ (pc = "config" /\ cur = t)) =>
            /\ \A k \in RepoKinds : RepoStep(k, t) \in obs.ensured
            /\ \A k \in RepoKinds : DefaultRepoName(k, t) \in repos
  /\ (buildFileName \in obs.written \/ pc = "build") =>
       \A t \in technologiesMap : TechFileName(t) \in obs.written

\* C9's case: build.yaml written by a run that detected two technologies.
C9_Witness ==
  /\ buildFileName \in obs.written
  /\ Cardinality(technologiesMap) >= 2

\* C10: whatever the order of the visits, a finished run failed exactly when
\* one of its steps was set to fail, and a run without failure leaves the same
\* files with the same contents and has issued the same provisioning calls.
C10_OrderIndependent ==
  Finished =>
    /\ (err # Nil) <=> (obs.faults0 \cap RunSteps(root, nested, argServerId) # {})
    /\ Succeeded =>
         /\ fs = ExpectedFiles
         /\ obs.issued = ExpectedCalls
         /\ repos = ExpectedRepos

\* C10's case: a finished run on a project of at least two technologies.
C10_Witness ==
  /\ Succeeded
  /\ Cardinality(technologiesMap) >= 2

====
